---- MODULE Spec2Model ----
(***************************************************************************)
(* AWS Signature Version 4 signer (aws-sign-web): the Node variant         *)
(* (aws-sign-web.js) and the browser variant (CryptoJS based).             *)
(*                                                                         *)
(* JavaScript values are represented as follows.                           *)
(*   string            a TLA+ string; a character is a string of length 1  *)
(*   undefined         the string undefined (defined below), which no      *)
(*                     input string equals                                 *)
(*   object            a sequence of <<key, value>> pairs with distinct    *)
(*                     keys, in property insertion order; the request and  *)
(*                     the configuration, whose property order is never    *)
(*                     observed, are functions whose DOMAIN is the set of  *)
(*                     properties present                                  *)
(*   hash, HMAC        uninterpreted: the term is written out as a string  *)
(***************************************************************************)
EXTENDS Integers, Sequences, FiniteSets, TLC

VARIABLES variant, config, signer, pc, heap, arg, ws, result

vars == <<variant, config, signer, pc, heap, arg, ws, result>>

undefined == "<undefined>"

(***************************************************************************)
(* Strings                                                                 *)
(***************************************************************************)
\* the printable ASCII characters in code order, from the space (code 32) to
\* the underscore and from a (code 97) to the tilde; the grave accent (code
\* 96), which a TLA+ string cannot hold, is left out of the alphabet
AsciiLow == " !\"#$%&'()*+,-./0123456789:;<=>?@ABCDEFGHIJKLMNOPQRSTUVWXYZ[\\]^_"

AsciiHigh == "abcdefghijklmnopqrstuvwxyz{|}~"

CharAt(s, i) == SubSeq(s, i, i)

CharsLow == {CharAt(AsciiLow, i) : i \in 1..Len(AsciiLow)}

CharsHigh == {CharAt(AsciiHigh, i) : i \in 1..Len(AsciiHigh)}

Chars == CharsLow \cup CharsHigh

\* UTF-16 code unit of a character
CodeTable ==
    [c \in Chars |->
        IF c \in CharsLow
        THEN (CHOOSE i \in 1..Len(AsciiLow) : CharAt(AsciiLow, i) = c) + 31
        ELSE (CHOOSE i \in 1..Len(AsciiHigh) : CharAt(AsciiHigh, i) = c) + 96]

Code(c) == CodeTable[c]

FromCode(n) ==
    IF n < 97 THEN CharAt(AsciiLow, n - 31) ELSE CharAt(AsciiHigh, n - 96)

IsUpper(c) == c \in Chars /\ Code(c) >= 65 /\ Code(c) <= 90

IsLower(c) == c \in Chars /\ Code(c) >= 97 /\ Code(c) <= 122

IsDigit(c) == c \in Chars /\ Code(c) >= 48 /\ Code(c) <= 57

LowerChar(c) == IF IsUpper(c) THEN FromCode(Code(c) + 32) ELSE c

UpperChar(c) == IF IsLower(c) THEN FromCode(Code(c) - 32) ELSE c

RECURSIVE toLowerCase(_)
toLowerCase(s) ==
    IF Len(s) = 0 THEN "" ELSE LowerChar(Head(s)) \o toLowerCase(Tail(s))

RECURSIVE toUpperCase(_)
toUpperCase(s) ==
    IF Len(s) = 0 THEN "" ELSE UpperChar(Head(s)) \o toUpperCase(Tail(s))

\* s < t in the order Array.prototype.sort uses by default (code units)
RECURSIVE StrLessFrom(_, _, _)
StrLessFrom(s, t, i) ==
    IF i > Len(t) THEN FALSE
    ELSE IF i > Len(s) THEN TRUE
    ELSE IF CharAt(s, i) = CharAt(t, i) THEN StrLessFrom(s, t, i + 1)
    ELSE Code(CharAt(s, i)) < Code(CharAt(t, i))

StrLess(s, t) == StrLessFrom(s, t, 1)

\* String.prototype.split with a one-character separator: the parts of s
\* between the places where sep stands
split(s, sep) ==
    LET at     == {i \in 1..Len(s) : CharAt(s, i) = sep}
        n      == Cardinality(at)
        nth(k) == IF k = 0 THEN 0
                  ELSE IF k > n THEN Len(s) + 1
                  ELSE CHOOSE i \in at : Cardinality({j \in at : j <= i}) = k
    IN  [k \in 1..(n + 1) |-> SubSeq(s, nth(k - 1) + 1, nth(k) - 1)]

\* Array.prototype.join
RECURSIVE join(_, _)
join(list, sep) ==
    IF Len(list) = 0 THEN ""
    ELSE IF Len(list) = 1 THEN list[1]
    ELSE list[1] \o sep \o join(Tail(list), sep)

\* String.prototype.substr(0, n)
substr0(s, n) == SubSeq(s, 1, IF n < Len(s) THEN n ELSE Len(s))

\* index of the first occurrence of character c in s at or after i, 0 if none
RECURSIVE IndexFrom(_, _, _)
IndexFrom(s, c, i) ==
    IF i > Len(s) THEN 0
    ELSE IF CharAt(s, i) = c THEN i ELSE IndexFrom(s, c, i + 1)

Digits == "0123456789"

HexDigits == "0123456789ABCDEF"

\* Number.prototype.toString for a natural number
RECURSIVE ToDec(_)
ToDec(n) ==
    IF n < 10 THEN CharAt(Digits, n + 1)
    ELSE ToDec(n \div 10) \o CharAt(Digits, (n % 10) + 1)

RECURSIVE PadLeft(_, _)
PadLeft(s, width) == IF Len(s) >= width THEN s ELSE PadLeft("0" \o s, width)

\* Array.prototype.sort on a list of strings (insertion sort; the order of
\* equal elements is not observable)
RECURSIVE InsertSorted(_, _)
InsertSorted(list, x) ==
    IF Len(list) = 0 THEN <<x>>
    ELSE IF StrLess(x, list[1]) THEN <<x>> \o list
    ELSE <<list[1]>> \o InsertSorted(Tail(list), x)

RECURSIVE sort(_)
sort(list) ==
    IF Len(list) = 0 THEN <<>>
    ELSE InsertSorted(sort(SubSeq(list, 1, Len(list) - 1)), list[Len(list)])

\* encodeURIComponent on printable ASCII: A-Z a-z 0-9 - _ . ! ~ * ' ( ) are
\* kept, every other character becomes %XX
Unescaped(c) == IsUpper(c) \/ IsLower(c) \/ IsDigit(c) \/ c \in {"-", "_", ".", "!", "~", "*", "'", "(", ")"}

EncodeChar(c) ==
    IF Unescaped(c) THEN c
    ELSE "%" \o CharAt(HexDigits, (Code(c) \div 16) + 1) \o CharAt(HexDigits, (Code(c) % 16) + 1)

RECURSIVE encodeURIComponent(_)
encodeURIComponent(s) ==
    IF Len(s) = 0 THEN "" ELSE EncodeChar(Head(s)) \o encodeURIComponent(Tail(s))

(***************************************************************************)
(* Objects                                                                 *)
(***************************************************************************)
null == "<null>"

\* a value in a condition: undefined, null and the empty string are falsy
Truthy(v) == v # undefined /\ v # null /\ v # ""

EmptyObject == << >>

\* Object.keys: the property names in insertion order
Keys(obj) == [i \in 1..Len(obj) |-> obj[i][1]]

Has(obj, key) == \E i \in 1..Len(obj) : obj[i][1] = key

\* obj[key]
Get(obj, key) ==
    IF Has(obj, key)
    THEN obj[CHOOSE i \in 1..Len(obj) : obj[i][1] = key][2]
    ELSE undefined

\* obj[key] = value: an existing property keeps its place, a new one is last
Put(obj, key, value) ==
    IF Has(obj, key)
    THEN [i \in 1..Len(obj) |-> IF obj[i][1] = key THEN <<key, value>> ELSE obj[i]]
    ELSE Append(obj, <<key, value>>)

\* delete obj[key]
Delete(obj, key) == SelectSeq(obj, LAMBDA kv : kv[1] # key)

\* rec[field] = value on an object whose property order is not observed
Assign(rec, field, value) ==
    [k \in (DOMAIN rec) \cup {field} |-> IF k = field THEN value ELSE rec[k]]

\* deep-extend's extend(target, source) on objects of primitive values:
\* every property of source is written to target
RECURSIVE extend(_, _)
extend(target, source) ==
    IF Len(source) = 0 THEN target
    ELSE extend(Put(target, source[1][1], source[1][2]), Tail(source))

\* deep-extend's extend({}, a, b) on objects whose property order is not
\* observed: a fresh object with the properties of a overwritten by those of b
extendNew(a, b) ==
    [k \in (DOMAIN a) \cup (DOMAIN b) |-> IF k \in DOMAIN b THEN b[k] ELSE a[k]]

(***************************************************************************)
(* Collaborators: JSON.stringify, url.parse, Date, SHA-256 and HMAC        *)
(***************************************************************************)
\* a data value is [type |-> "number", num |-> n], [type |-> "string",
\* str |-> s] or [type |-> "object", obj |-> pairs of strings]
TruthyData(v) ==
    CASE v.type = "number" -> v.num # 0
      [] v.type = "string" -> v.str # ""
      [] OTHER -> TRUE

Quote(s) == "\"" \o s \o "\""

JSONstringify(v) ==
    CASE v.type = "number" -> ToDec(v.num)
      [] v.type = "string" -> Quote(v.str)
      [] OTHER ->
            "{" \o join([i \in 1..Len(v.obj) |->
                            Quote(v.obj[i][1]) \o ":" \o Quote(v.obj[i][2])], ",") \o "}"

\* end of the part of s that starts at i and stops before the first
\* character of stops
RECURSIVE ScanTo(_, _, _)
ScanTo(s, i, stops) ==
    IF i > Len(s) \/ CharAt(s, i) \in stops THEN i - 1 ELSE ScanTo(s, i + 1, stops)

\* url.parse(url) of Node's url module, without parseQueryString, for urls of
\* the form scheme://host[/path][?query]: query is the text after '?', and
\* path is pathname followed by search
parseUrl(url) ==
    LET colon    == IndexFrom(url, ":", 1)
        hostFrom == colon + 3
        hostTo   == ScanTo(url, hostFrom, {"/", "?"})
        pathTo   == ScanTo(url, hostTo + 1, {"?"})
        rawPath  == SubSeq(url, hostTo + 1, pathTo)
        pathname == IF rawPath = "" THEN "/" ELSE rawPath
        hasQuery == pathTo < Len(url)
        search   == IF hasQuery THEN SubSeq(url, pathTo + 1, Len(url)) ELSE null
        query    == IF hasQuery THEN SubSeq(url, pathTo + 2, Len(url)) ELSE null
    IN  [protocol |-> SubSeq(url, 1, colon),
         host     |-> toLowerCase(SubSeq(url, hostFrom, hostTo)),
         pathname |-> pathname,
         search   |-> search,
         query    |-> query,
         path     |-> IF hasQuery THEN pathname \o search ELSE pathname]

\* Date.prototype.toISOString: YYYY-MM-DDTHH:mm:ss.sssZ, the year with a sign
\* and six digits when it is beyond 9999
toISOString(date) ==
    (IF date.year <= 9999 THEN PadLeft(ToDec(date.year), 4)
                          ELSE "+" \o PadLeft(ToDec(date.year), 6))
    \o "-" \o PadLeft(ToDec(date.month), 2)
    \o "-" \o PadLeft(ToDec(date.day), 2)
    \o "T" \o PadLeft(ToDec(date.hour), 2)
    \o ":" \o PadLeft(ToDec(date.minute), 2)
    \o ":" \o PadLeft(ToDec(date.second), 2)
    \o "." \o PadLeft(ToDec(date.ms), 3)
    \o "Z"

\* s.replace(/[:\-]|\.\d{3}/g, '')
RECURSIVE StripDateSeparators(_, _)
StripDateSeparators(s, i) ==
    IF i > Len(s) THEN ""
    ELSE IF CharAt(s, i) \in {":", "-"} THEN StripDateSeparators(s, i + 1)
    ELSE IF /\ CharAt(s, i) = "."
            /\ i + 3 <= Len(s)
            /\ \A j \in (i + 1)..(i + 3) : IsDigit(CharAt(s, j))
         THEN StripDateSeparators(s, i + 4)
    ELSE CharAt(s, i) \o StripDateSeparators(s, i + 1)

\* crypto.createHash('sha256').update(input).digest('hex') in the Node
\* variant, CryptoJS.SHA256(input).toString(CryptoJS.enc.Hex) in the browser
\* variant: the hex digest, uninterpreted
sha256(input) == "sha256(" \o input \o ")"

\* HMAC-SHA256 of input under key as raw bytes, uninterpreted
HmacSHA256(key, input) == "hmac(" \o key \o "," \o input \o ")"

\* the hex encoding of raw bytes, uninterpreted
Hex(bytes) == "hex(" \o bytes \o ")"

(***************************************************************************)
(* The signer                                                              *)
(***************************************************************************)
Variants == {"node", "browser"}

defaultConfig ==
    [region                   |-> "eu-west-1",
     service                  |-> "execute-api",
     defaultContentType       |-> "application/json",
     defaultAcceptType        |-> "application/json",
     defaultExpectType        |-> "100-continue",
     payloadSerializerFactory |-> "JsonPayloadSerializer",
     hasherFactory            |-> "Sha256Hasher"]

\* rec[field] of an object whose property order is not observed
Prop(rec, field) == IF field \in DOMAIN rec THEN rec[field] ELSE undefined

\* an assert that only rejects a missing value
assertDefined(statement) == statement = undefined

\* assert(statement, msg) of the Node variant: TRUE when it throws
assert(statement) == ~Truthy(statement)

\* assertRequired(obj, msg) of the browser variant: TRUE when it throws
assertRequired(obj) == obj = undefined \/ ~Truthy(obj)

\* new AwsSigner(config): the signer, or the error the constructor throws
AwsSigner(v, given) ==
    LET cfg     == extendNew(defaultConfig, given)
        throws1 == IF v = "node" THEN assert(Prop(cfg, "accessKeyId"))
                                 ELSE assertRequired(Prop(cfg, "accessKeyId"))
        throws2 == IF v = "node" THEN assert(Prop(cfg, "secretAccessKey"))
                                 ELSE assertRequired(Prop(cfg, "secretAccessKey"))
    IN  IF throws1 THEN [status |-> "threw", error |-> "AwsSigner requires AWS AccessKeyID"]
        ELSE IF throws2 THEN [status |-> "threw", error |-> "AwsSigner requires AWS SecretAccessKey"]
        ELSE [status            |-> "ok",
              config            |-> cfg,
              payloadSerializer |-> IF Truthy(Prop(cfg, "payloadSerializer"))
                                    THEN cfg.payloadSerializer
                                    ELSE cfg.payloadSerializerFactory,
              hasher            |-> cfg.hasherFactory]

\* self.payloadSerializer(data): the default factories return JSON.stringify
payloadSerializer(self, data) == JSONstringify(data)

\* amzDate(date, short)
amzDate(date, short) ==
    LET res == substr0(StripDateSeparators(toISOString(date), 1), 17)
    IN  IF short THEN substr0(res, 8) ELSE res

\* the working set made to refer to the caller's object, without a copy
extendAlias(h, ref) == [heap |-> h, ref |-> ref]

\* extend({}, request) in sign: a fresh object on the heap that holds a copy
\* of the object at ref, and the reference to it
extendCopy(h, ref) ==
    [heap |-> Assign(h, "copy", extendNew(EmptyObject, h[ref])), ref |-> "copy"]

\* Object.keys and property reads on uri.query, which is an object or, when
\* the url has a query string, that string: the properties of a string are
\* its character indices
QueryObject(q) ==
    IF q.type = "string"
    THEN [i \in 1..Len(q.str) |-> <<ToDec(i - 1), CharAt(q.str, i)>>]
    ELSE q.obj

\* extend(ws.uri.query, params): deep-extend returns without writing when the
\* target is not an object
extendQuery(q, params) ==
    IF q.type # "object" THEN q ELSE [q EXCEPT !.obj = extend(q.obj, params)]

\* sign, lines 66-72: the working set of one call. The call state is the
\* heap, the working set and the error thrown so far
newWorkingSet(request, signDate) ==
    LET parsed == parseUrl(request.url)
        uri    == [parsed EXCEPT !.query =
                      IF ~Truthy(parsed.query)
                      THEN [type |-> "object", obj |-> EmptyObject]
                      ELSE [type |-> "string", str |-> parsed.query]]
        copied == extendCopy([caller |-> request], "caller")
    IN  [heap  |-> copied.heap,
         ws    |-> [request |-> copied.ref, signDate |-> signDate, uri |-> uri],
         threw |-> ""]

\* the caller's headers taken over with their keys as given
RECURSIVE keepHeaderCase(_, _)
keepHeaderCase(normalized, headers) ==
    IF Len(headers) = 0 THEN normalized
    ELSE keepHeaderCase(Put(normalized, headers[1][1], headers[1][2]), Tail(headers))

\* headers normalized by lower-casing the keys, in Object.keys order
RECURSIVE normalizeHeaders(_, _)
normalizeHeaders(normalized, headers) ==
    IF Len(headers) = 0 THEN normalized
    ELSE normalizeHeaders(Put(normalized, toLowerCase(headers[1][1]), headers[1][2]),
                          Tail(headers))

\* a payload choice that lets data win over body
selectPayloadDataFirst(self, req) ==
    IF "data" \in DOMAIN req /\ TruthyData(req.data) /\ Truthy(self.payloadSerializer)
    THEN [has |-> TRUE, payload |-> payloadSerializer(self, req.data)]
    ELSE IF Truthy(Prop(req, "body"))
         THEN [has |-> TRUE, payload |-> req.body]
         ELSE [has |-> FALSE]

\* prepare, "Payload or not?": the payload, when there is one
selectPayload(self, req) ==
    IF Truthy(Prop(req, "body"))
    THEN [has |-> TRUE, payload |-> req.body]
    ELSE IF "data" \in DOMAIN req /\ TruthyData(req.data) /\ Truthy(self.payloadSerializer)
         THEN [has |-> TRUE, payload |-> payloadSerializer(self, req.data)]
         ELSE [has |-> FALSE]

prepare(self, m) ==
    LET req      == m.heap[m.ws.request]
        base     == << <<"host", m.ws.uri.host>>,
                       <<"content-type", self.config.defaultContentType>>,
                       <<"accept", self.config.defaultAcceptType>>,
                       <<"expect", self.config.defaultExpectType>>,
                       <<"x-amz-date", amzDate(m.ws.signDate, FALSE)>> >>
        chosen   == selectPayload(self, req)
        ws1      == IF chosen.has THEN Assign(m.ws, "payload", chosen.payload) ELSE m.ws
        headers  == IF chosen.has THEN base ELSE Delete(base, "content-type")
        given    == IF "headers" \in DOMAIN req THEN req.headers ELSE EmptyObject
        merged   == extend(headers, normalizeHeaders(EmptyObject, given))
        stripped == IF Truthy(Get(merged, "content-type"))
                    THEN Put(merged, "content-type", split(Get(merged, "content-type"), ";")[1])
                    ELSE merged
        req1     == Assign(Assign(req, "method", toUpperCase(req.method)), "headers", stripped)
        ws2      == Assign(ws1, "sortedHeaderKeys", sort(Keys(merged)))
        ws3      == IF "params" \in DOMAIN req
                    THEN [ws2 EXCEPT !.uri.query = extendQuery(ws2.uri.query, req.params)]
                    ELSE ws2
    IN  [m EXCEPT !.heap = Assign(m.heap, m.ws.request, req1), !.ws = ws3]

\* the hasher that the payload hash expression of buildCanonicalRequest
\* reads: this.hasher in the Node variant, where the function is called
\* without a receiver and this is not the signer, self.hasher in the browser
\* variant
payloadHasher(v, self) == IF v = "node" THEN undefined ELSE self.hasher

canonicalUri(m) ==
    LET segs == split(m.ws.uri.path, "/")
    IN  join([i \in 1..Len(segs) |-> encodeURIComponent(segs[i])], "/")

canonicalQuery(m) ==
    LET query == QueryObject(m.ws.uri.query)
        keys  == sort(Keys(query))
    IN  join([i \in 1..Len(keys) |->
                 encodeURIComponent(keys[i]) \o "=" \o encodeURIComponent(Get(query, keys[i]))],
             "&")

canonicalHeaders(m) ==
    LET keys    == m.ws.sortedHeaderKeys
        headers == m.heap[m.ws.request].headers
    IN  join([i \in 1..Len(keys) |-> toLowerCase(keys[i]) \o ":" \o Get(headers, keys[i])],
             "\n") \o "\n"

buildCanonicalRequest(v, self, m) ==
    LET req      == m.heap[m.ws.request]
        signed   == join([i \in 1..Len(m.ws.sortedHeaderKeys) |->
                             toLowerCase(m.ws.sortedHeaderKeys[i])], ";")
        ws1      == Assign(m.ws, "signedHeaders", signed)
        unsigned == Get(req.headers, "x-amz-content-sha256") = "UNSIGNED-PAYLOAD"
        payload  == IF Truthy(Prop(m.ws, "payload")) THEN m.ws.payload ELSE ""
    IN  IF ~unsigned /\ payloadHasher(v, self) = undefined
        THEN [m EXCEPT !.ws = ws1, !.threw = "TypeError"]
        ELSE [m EXCEPT !.ws = Assign(ws1, "canonicalRequest",
                 join(<<toUpperCase(req.method),
                        canonicalUri(m),
                        canonicalQuery(m),
                        canonicalHeaders(m),
                        signed,
                        IF unsigned THEN "UNSIGNED-PAYLOAD" ELSE sha256(payload)>>,
                      "\n"))]

buildStringToSign(self, m) ==
    LET scope == join(<<amzDate(m.ws.signDate, TRUE), self.config.region,
                        self.config.service, "aws4_request">>, "/")
    IN  [m EXCEPT !.ws =
            Assign(Assign(m.ws, "credentialScope", scope), "stringToSign",
                   join(<<"AWS4-HMAC-SHA256", amzDate(m.ws.signDate, FALSE), scope,
                          sha256(m.ws.canonicalRequest)>>, "\n"))]

\* hmac(key, input) of the Node variant: the raw digest
hmac(key, input) == HmacSHA256(key, input)

\* an hmac that hex encodes whatever the options say
hasherHmacHex(key, input, hexOutput) == Hex(HmacSHA256(key, input))

\* hasher.hmac(key, input, options) of the browser variant: the digest, hex
\* encoded unless options.hexOutput is false
hasherHmac(key, input, hexOutput) ==
    IF hexOutput THEN Hex(HmacSHA256(key, input)) ELSE HmacSHA256(key, input)

calculateSignature(v, self, m) ==
    LET secret    == "AWS4" \o self.config.secretAccessKey
        shortDate == amzDate(m.ws.signDate, TRUE)
        signKey   ==
            IF v = "node"
            THEN hmac(hmac(hmac(hmac(secret, shortDate), self.config.region),
                           self.config.service), "aws4_request")
            ELSE hasherHmac(hasherHmac(hasherHmac(hasherHmac(secret, shortDate, FALSE),
                                                  self.config.region, FALSE),
                                       self.config.service, FALSE),
                            "aws4_request", FALSE)
    IN  [m EXCEPT !.ws = Assign(m.ws, "signature",
            IF v = "node" THEN Hex(hmac(signKey, m.ws.stringToSign))
                          ELSE hasherHmac(signKey, m.ws.stringToSign, TRUE))]

buildSignatureHeader(self, m) ==
    [m EXCEPT !.ws = Assign(m.ws, "authorization",
        "AWS4-HMAC-SHA256 " \o
        "Credential=" \o self.config.accessKeyId \o "/" \o m.ws.credentialScope \o ", " \o
        "SignedHeaders=" \o m.ws.signedHeaders \o ", " \o
        "Signature=" \o m.ws.signature)]

ReturnedNames ==
    {"accept", "expect", "authorization", "content-type", "content-length",
     "x-amz-date", "x-amz-security-token"}

\* the object sign returns
signedHeadersOf(self, m) ==
    LET headers == m.heap[m.ws.request].headers
    IN  [name \in ReturnedNames |->
            IF name = "authorization" THEN m.ws.authorization
            ELSE IF name = "x-amz-security-token"
                 THEN IF Truthy(Prop(self.config, "sessionToken"))
                      THEN self.config.sessionToken ELSE undefined
            ELSE Get(headers, name)]

(***************************************************************************)
(* Inputs                                                                  *)
(***************************************************************************)
MaxHeaders == 2

MaxParams == 2

\* the objects of at most n properties taken from pool
ObjectsUpTo(pool, n) ==
    UNION {{obj \in [1..k -> pool] :
               \A i, j \in 1..k : i # j => obj[i][1] # obj[j][1]} : k \in 0..n}

\* an object with the given properties, without those that are undefined
\* (method, url, body, accessKeyId ...) or absent (<<>> for <<value>>)
Object(props) ==
    LET present == {i \in 1..Len(props) : props[i][2] # << >>}
    IN  [k \in {props[i][1] : i \in present} |->
            props[CHOOSE i \in present : props[i][1] = k][2][1]]

Option(values) == {<< >>} \cup {<<x>> : x \in values}

\* the credentials present, empty or missing; the other properties left to
\* their defaults or all given
Configs ==
    {Object(<< <<"accessKeyId", a>>, <<"secretAccessKey", k>>, <<"sessionToken", r[1]>>,
               <<"region", r[2]>>, <<"service", r[3]>> >>) :
        a \in Option({"", "AKIDEXAMPLE"}),
        k \in Option({"", "wJalrXUtnFEMI/K7MDENG+bPxRfiCYEXAMPLEKEY"}),
        r \in {<< << >>, << >>, << >> >>, << <<"TOKEN">>, <<"us-east-1">>, <<"s3">> >>}}

HeaderPool ==
    {<<"Content-Type", "text/plain;charset=utf-8">>,
     <<"content-type", "text/xml">>,
     <<"X-Amz-Content-Sha256", "UNSIGNED-PAYLOAD">>,
     <<"x-amz-content-sha256", "unsigned-payload">>,
     <<"Accept", "*/*">>}

\* headers of a request that carries a date of its own
DatedPool ==
    {<<"X-Amz-Date", "20000101T000000Z">>,
     <<"X-Amz-Content-Sha256", "UNSIGNED-PAYLOAD">>}

ParamPool == {<<"b", "2">>, <<"a", "1">>, <<"a b", "x&y">>}

Urls ==
    {"https://Example.com",
     "https://h.io/a+b/c",
     "https://h.io/p?b=2&a=1",
     "https://h.io/p?a=1&b=2"}

Bodies == {"", "hello"}

Datas ==
    {[type |-> "number", num |-> 0],
     [type |-> "object", obj |-> << <<"k", "v">> >>]}

\* requests that vary the headers and the payload, requests that vary the
\* url and the params, and requests that carry a date
Requests ==
    {Object(<< <<"method", <<"post">> >>, <<"url", <<"https://h.io/a+b/c">> >>,
               <<"headers", h>>, <<"body", b>>, <<"data", d>> >>) :
        h \in Option(ObjectsUpTo(HeaderPool, MaxHeaders) \ {<< >>}),
        b \in Option(Bodies), d \in Option(Datas)}
    \cup
    {Object(<< <<"method", <<mt>> >>, <<"url", <<u>> >>, <<"params", p>> >>) :
        mt \in {"get", "Put"}, u \in Urls,
        p \in Option(ObjectsUpTo(ParamPool, MaxParams))}
    \cup
    {Object(<< <<"method", <<"post">> >>, <<"url", <<"https://h.io/a+b/c">> >>,
               <<"headers", <<h>> >> >>) :
        h \in ObjectsUpTo(DatedPool, MaxHeaders) \ {<< >>}}

Dates ==
    {[year |-> 2015, month |-> 8, day |-> 30, hour |-> 12, minute |-> 36,
      second |-> 0, ms |-> 0],
     [year |-> 2026, month |-> 11, day |-> 6, hour |-> 9, minute |-> 5,
      second |-> 7, ms |-> 123]}

(***************************************************************************)
(* The state machine                                                       *)
(*   variant  which of the two builds runs                                 *)
(*   config   the configuration the caller passed to the constructor        *)
(*   signer   the AwsSigner object, or the error its constructor threw     *)
(*   pc       where the current call of sign is                            *)
(*   heap     the request object the caller holds ("caller") and the       *)
(*            objects the call allocated                                   *)
(*   arg      the request as it was when the caller passed it to sign      *)
(*   ws       the working set of the call                                  *)
(*   result   what the call returned or threw                              *)
(***************************************************************************)
None == [status |-> "none"]

\* the call state the stages of sign work on
Call == [heap |-> heap, ws |-> ws, threw |-> ""]

Init ==
    /\ variant \in Variants
    /\ config = << >>
    /\ signer = None
    /\ pc = "idle"
    /\ heap = << >>
    /\ arg = << >>
    /\ ws = << >>
    /\ result = None

Construct(given) ==
    /\ signer.status = "none"
    /\ config' = given
    /\ signer' = AwsSigner(variant, given)
    /\ UNCHANGED <<variant, pc, heap, arg, ws, result>>

\* sign is called: the url is parsed and the working set is made
Sign(request, signDate) ==
    /\ signer.status = "ok"
    /\ pc = "idle"
    /\ LET m == newWorkingSet(request, signDate)
       IN  heap' = m.heap /\ ws' = m.ws
    /\ arg' = request
    /\ pc' = "prepare"
    /\ UNCHANGED <<variant, config, signer, result>>

Prepare ==
    /\ pc = "prepare"
    /\ LET m == prepare(signer, Call)
       IN  heap' = m.heap /\ ws' = m.ws
    /\ pc' = "buildCanonicalRequest"
    /\ UNCHANGED <<variant, config, signer, arg, result>>

\* the TypeError of the payload hash expression leaves sign
BuildCanonicalRequest ==
    /\ pc = "buildCanonicalRequest"
    /\ LET m == buildCanonicalRequest(variant, signer, Call)
       IN  /\ heap' = m.heap
           /\ ws' = m.ws
           /\ IF m.threw # ""
              THEN pc' = "done" /\ result' = [status |-> "threw", error |-> m.threw]
              ELSE pc' = "buildStringToSign" /\ result' = result
    /\ UNCHANGED <<variant, config, signer, arg>>

BuildStringToSign ==
    /\ pc = "buildStringToSign"
    /\ LET m == buildStringToSign(signer, Call)
       IN  heap' = m.heap /\ ws' = m.ws
    /\ pc' = "calculateSignature"
    /\ UNCHANGED <<variant, config, signer, arg, result>>

CalculateSignature ==
    /\ pc = "calculateSignature"
    /\ LET m == calculateSignature(variant, signer, Call)
       IN  heap' = m.heap /\ ws' = m.ws
    /\ pc' = "buildSignatureHeader"
    /\ UNCHANGED <<variant, config, signer, arg, result>>

BuildSignatureHeader ==
    /\ pc = "buildSignatureHeader"
    /\ LET m == buildSignatureHeader(signer, Call)
       IN  heap' = m.heap /\ ws' = m.ws
    /\ pc' = "return"
    /\ UNCHANGED <<variant, config, signer, arg, result>>

Return ==
    /\ pc = "return"
    /\ result' = [status |-> "returned", headers |-> signedHeadersOf(signer, Call)]
    /\ pc' = "done"
    /\ UNCHANGED <<variant, config, signer, heap, arg, ws>>

\* the caller is done with the headers and the request of the last call; the
\* working set is garbage
Release ==
    /\ pc = "done"
    /\ heap' = << >>
    /\ arg' = << >>
    /\ ws' = << >>
    /\ result' = None
    /\ pc' = "idle"
    /\ UNCHANGED <<variant, config, signer>>

Next ==
    \/ \E given \in Configs : Construct(given)
    \/ \E request \in Requests, signDate \in Dates : Sign(request, signDate)
    \/ Prepare
    \/ BuildCanonicalRequest
    \/ BuildStringToSign
    \/ CalculateSignature
    \/ BuildSignatureHeader
    \/ Return
    \/ Release

Spec == Init /\ [][Next]_vars

(***************************************************************************)
(* Properties                                                              *)
(***************************************************************************)
Lines(s) == split(s, "\n")

\* the request object the working set refers to
Working == heap[ws.request]

AfterPrepare == pc \notin {"idle", "prepare"}

Built == "canonicalRequest" \in DOMAIN ws

Returned == pc = "done" /\ result.status = "returned"

NonEmpty(rec, field) == field \in DOMAIN rec /\ rec[field] # ""

\* C1: the constructor throws, in both variants, exactly when accessKeyId or
\* secretAccessKey of the configuration passed to it is missing or empty; with
\* both non-empty a signer is obtained
C1_CredentialValidation ==
    signer.status # "none" =>
        (signer.status = "ok" <=>
            NonEmpty(config, "accessKeyId") /\ NonEmpty(config, "secretAccessKey"))

C1_Witness ==
    /\ signer.status = "threw"
    /\ NonEmpty(config, "accessKeyId")
    /\ "secretAccessKey" \in DOMAIN config
    /\ config.secretAccessKey = ""

\* C2: every call of sign on a well-formed request runs all its stages and
\* returns the header mapping; none throws
C2_SignAlwaysReturns == pc = "done" => result.status = "returned"

\* C3: a call of sign leaves the caller's request object as it was passed in
\* and the signer's configuration as the constructor made it; what prepare
\* writes goes to the working set's own copy
C3_SignMutatesNothing ==
    /\ pc # "idle" => heap["caller"] = arg
    /\ signer.status = "ok" => signer.config = extendNew(defaultConfig, config)

C3_Witness ==
    /\ Returned
    /\ heap["caller"].method = "post"
    /\ Working.method = "POST"
    /\ "headers" \in DOMAIN heap["caller"]
    /\ Working.headers # heap["caller"].headers

\* the query parameters a url carries: the text after '?', split on '&' and
\* each part on '='
RECURSIVE PairsOf(_)
PairsOf(parts) ==
    IF Len(parts) = 0 THEN EmptyObject
    ELSE LET kv == split(parts[Len(parts)], "=")
         IN  Put(PairsOf(SubSeq(parts, 1, Len(parts) - 1)), kv[1],
                 IF Len(kv) > 1 THEN kv[2] ELSE "")

UrlQuery(url) ==
    LET q == IndexFrom(url, "?", 1)
    IN  IF q = 0 \/ q = Len(url) THEN EmptyObject
        ELSE PairsOf(split(SubSeq(url, q + 1, Len(url)), "&"))

UrlPath(url) ==
    LET q    == IndexFrom(url, "?", 1)
        from == IndexFrom(url, "/", IndexFrom(url, ":", 1) + 3)
        to   == IF q = 0 THEN Len(url) ELSE q - 1
    IN  IF from = 0 \/ from > to THEN "/" ELSE SubSeq(url, from, to)

\* the canonical query string the request calls for: the parameters of the
\* url and of params, params winning, sorted by raw key
ExpectedQuery(request) ==
    LET all  == extend(UrlQuery(request.url),
                       IF "params" \in DOMAIN request THEN request.params ELSE EmptyObject)
        keys == sort(Keys(all))
    IN  join([i \in 1..Len(keys) |->
                 encodeURIComponent(keys[i]) \o "=" \o encodeURIComponent(Get(all, keys[i]))],
             "&")

\* C4: the third line of the canonical request holds one encoded key=value
\* pair for every parameter of the url's query string and of params (params
\* winning), sorted by raw key and joined with '&'
C4_CanonicalQuery == Built => Lines(ws.canonicalRequest)[3] = ExpectedQuery(arg)

\* the headers the caller gave, and the value merged last under a name
GivenHeaders == IF "headers" \in DOMAIN arg THEN arg.headers ELSE EmptyObject

GivenNames == {toLowerCase(GivenHeaders[i][1]) : i \in 1..Len(GivenHeaders)}

LastGiven(name) ==
    LET at == {i \in 1..Len(GivenHeaders) : toLowerCase(GivenHeaders[i][1]) = name}
    IN  GivenHeaders[CHOOSE i \in at : \A j \in at : j <= i][2]

StartsWith(s, prefix) == Len(s) >= Len(prefix) /\ SubSeq(s, 1, Len(prefix)) = prefix

\* every header name is lower-case and appears once in the mapping, in the
\* sorted key list, in the signed-headers list and in the canonical headers
HeaderNamesOnce ==
    LET H == Working.headers
        n == Len(H)
    IN  /\ \A i \in 1..n : toLowerCase(H[i][1]) = H[i][1]
        /\ \A i, j \in 1..n : i # j => H[i][1] # H[j][1]
        /\ Len(ws.sortedHeaderKeys) = n
        /\ \A i \in 1..n : \E j \in 1..n : ws.sortedHeaderKeys[j] = H[i][1]
        /\ "signedHeaders" \in DOMAIN ws => split(ws.signedHeaders, ";") = ws.sortedHeaderKeys
        /\ Built =>
             LET L == Lines(ws.canonicalRequest)
             IN  /\ Len(L) = n + 6
                 /\ \A i \in 1..n :
                      Cardinality({k \in 4..(n + 3) : StartsWith(L[k], H[i][1] \o ":")}) = 1

\* C5 as stated: after prepare the header names are lower-case and unique,
\* and a name the caller gave holds the value the caller merged last under it
C5_HeadersAsStated ==
    AfterPrepare =>
        /\ HeaderNamesOnce
        /\ \A name \in GivenNames : Get(Working.headers, name) = LastGiven(name)

\* C5 amended: the same, the content-type value being cut at its first ';'
C5_HeadersNormalized ==
    AfterPrepare =>
        /\ HeaderNamesOnce
        /\ \A name \in GivenNames :
             Get(Working.headers, name) =
                IF name = "content-type" THEN split(LastGiven(name), ";")[1]
                                         ELSE LastGiven(name)

C5_Witness ==
    /\ Built
    /\ Len(GivenHeaders) = 2
    /\ GivenHeaders[1][1] = "content-type"
    /\ GivenHeaders[2][1] = "Content-Type"
    /\ GivenHeaders[2][2] = "text/plain;charset=utf-8"
    /\ Get(Working.headers, "content-type") = "text/plain"

\* C6: the last line of the canonical request is the literal UNSIGNED-PAYLOAD
\* when the caller's x-amz-content-sha256 header, under any case, is exactly
\* that, and the hash of the payload (of the empty string without one)
\* otherwise
C6_PayloadHashLine ==
    pc = "done" =>
        /\ Built
        /\ LET L == Lines(ws.canonicalRequest)
           IN  L[Len(L)] =
                 IF /\ "x-amz-content-sha256" \in GivenNames
                    /\ LastGiven("x-amz-content-sha256") = "UNSIGNED-PAYLOAD"
                 THEN "UNSIGNED-PAYLOAD"
                 ELSE sha256(IF "payload" \in DOMAIN ws THEN ws.payload ELSE "")

Bodiless == "body" \notin DOMAIN arg /\ "data" \notin DOMAIN arg

\* C7: for a request with neither body nor data, whatever its headers,
\* content-type is not among the headers that are signed, and the mapping
\* returned has no content-type but an x-amz-date and an authorization
C7_BodilessNoContentType ==
    /\ AfterPrepare /\ Bodiless =>
         /\ ~Has(Working.headers, "content-type")
         /\ \A i \in 1..Len(ws.sortedHeaderKeys) : ws.sortedHeaderKeys[i] # "content-type"
    /\ pc = "done" /\ Bodiless =>
         /\ result.status = "returned"
         /\ result.headers["content-type"] = undefined
         /\ result.headers["x-amz-date"] # undefined
         /\ result.headers["authorization"] # undefined

\* C8: the second line of the canonical request is the url's path alone, each
\* segment encoded and the slashes kept; nothing of the query string is in it
C8_CanonicalUriIsPath ==
    Built =>
        LET segs == split(UrlPath(arg.url), "/")
        IN  Lines(ws.canonicalRequest)[2] =
                join([i \in 1..Len(segs) |-> encodeURIComponent(segs[i])], "/")

NoGivenContentType == "content-type" \notin GivenNames

\* C9 as stated: a body that is present, even empty, is the payload; data is
\* serialized only when body is absent; without both there is no payload and
\* the default content-type is dropped
C9_PayloadAsStated ==
    AfterPrepare =>
        /\ "body" \in DOMAIN arg => "payload" \in DOMAIN ws /\ ws.payload = arg.body
        /\ "body" \notin DOMAIN arg /\ "data" \in DOMAIN arg =>
              "payload" \in DOMAIN ws /\ ws.payload = JSONstringify(arg.data)
        /\ Bodiless =>
              /\ "payload" \notin DOMAIN ws
              /\ NoGivenContentType => ~Has(Working.headers, "content-type")

HasBody == "body" \in DOMAIN arg /\ arg.body # ""

HasData ==
    /\ "data" \in DOMAIN arg
    /\ arg.data.type = "number" => arg.data.num # 0
    /\ arg.data.type = "string" => arg.data.str # ""

\* C9 amended: a body that is present and not empty is the payload, whatever
\* data is; without such a body, data that is present and truthy is
\* serialized; otherwise there is no payload and the default content-type is
\* dropped
C9_PayloadSelection ==
    AfterPrepare =>
        /\ HasBody => "payload" \in DOMAIN ws /\ ws.payload = arg.body
        /\ ~HasBody /\ HasData =>
              "payload" \in DOMAIN ws /\ ws.payload = JSONstringify(arg.data)
        /\ ~HasBody /\ ~HasData =>
              /\ "payload" \notin DOMAIN ws
              /\ NoGivenContentType => ~Has(Working.headers, "content-type")

C9_Witness ==
    /\ AfterPrepare
    /\ "body" \in DOMAIN arg
    /\ arg.body = ""
    /\ HasData
    /\ ws.payload = "{\"k\":\"v\"}"

\* C10: the authorization returned is the algorithm, the credential
\* (accessKeyId and the scope of the string to sign), the signed headers of
\* the canonical request and the hex of the HMAC of the string to sign under
\* the key derived from the secret by the date, region, service and
\* aws4_request HMACs, in that order and on raw digests, in both variants
C10_Authorization ==
    Returned =>
        LET sts    == Lines(ws.stringToSign)
            scope  == sts[3]
            short  == split(scope, "/")[1]
            cr     == Lines(ws.canonicalRequest)
            signed == cr[Len(cr) - 1]
            cfg    == signer.config
            kDate    == HmacSHA256("AWS4" \o cfg.secretAccessKey, short)
            kRegion  == HmacSHA256(kDate, cfg.region)
            kService == HmacSHA256(kRegion, cfg.service)
            kSigning == HmacSHA256(kService, "aws4_request")
        IN  /\ scope = short \o "/" \o cfg.region \o "/" \o cfg.service \o "/aws4_request"
            /\ result.headers["authorization"] =
                  "AWS4-HMAC-SHA256 Credential=" \o cfg.accessKeyId \o "/" \o scope
                  \o ", SignedHeaders=" \o signed
                  \o ", Signature=" \o Hex(HmacSHA256(kSigning, ws.stringToSign))

C10_Witness ==
    /\ Returned
    /\ variant = "node"
    /\ signer.config.region = "us-east-1"
    /\ "payload" \in DOMAIN ws

\* C11: in every call of sign that returns, the x-amz-date returned is the
\* long form of the signing timestamp, it is the x-amz-date line of the
\* canonical headers and the second line of the string to sign, and its first
\* 8 characters are the date of the credential scope and of the first HMAC of
\* the key derivation
C11_DatesAgree ==
    Returned =>
        LET date   == result.headers["x-amz-date"]
            short  == SubSeq(date, 1, 8)
            sts    == Lines(ws.stringToSign)
            cr     == Lines(ws.canonicalRequest)
            cfg    == signer.config
            kDate    == HmacSHA256("AWS4" \o cfg.secretAccessKey, short)
            kRegion  == HmacSHA256(kDate, cfg.region)
            kService == HmacSHA256(kRegion, cfg.service)
            kSigning == HmacSHA256(kService, "aws4_request")
        IN  /\ date = amzDate(ws.signDate, FALSE)
            /\ \E i \in 1..Len(cr) : cr[i] = "x-amz-date:" \o date
            /\ sts[2] = date
            /\ split(sts[3], "/")[1] = short
            /\ ws.signature = Hex(HmacSHA256(kSigning, ws.stringToSign))

====
